---- MODULE Spec2Model ----
(***************************************************************************)
(* The double-entry ledger of the ERP back end: the Account, JournalEntry, *)
(* JournalLine, Invoice, Payment, Project, CashFlow and AuditLog tables    *)
(* and the request handlers that write them.  One action is one request    *)
(* handled from its first database call to its response.                   *)
(*                                                                         *)
(* Money is an integer number of half cents (0.005).  A DECIMAL(15,2)      *)
(* column holds whole cents, so a stored amount is an even number and a    *)
(* write of any other amount is rounded by the database (RoundCents).      *)
(* Arithmetic on request amounts is exact.                                 *)
(***************************************************************************)
EXTENDS Integers, Sequences, FiniteSets, TLC

VARIABLES
    account,        \* "Account" rows: id -> [code, type, balance, isActive]
    journalEntry,   \* "JournalEntry" rows with their "JournalLine" rows, in creation order
    invoice,        \* "Invoice" rows: id -> [invoiceNumber, type, total, status]
    nextInvoiceId,  \* the id the next "Invoice" row gets (ids are never reused)
    payment,        \* "Payment" rows, in creation order
    project,        \* "Project" rows, in creation order
    cashFlow,       \* "CashFlow" rows, in creation order
    auditLog,       \* "AuditLog" rows, as the set of their (action, entity, entityId)
    res,            \* the response to the most recent request: [op, status]
    request         \* the handlers that are between two of their database calls:
                    \* request slot -> [pc, ...what the handler holds in its locals]

db == <<account, journalEntry, invoice, nextInvoiceId, payment, project, cashFlow>>
vars == <<account, journalEntry, invoice, nextInvoiceId, payment, project, cashFlow,
          auditLog, res, request>>

----------------------------------------------------------------------------
(* Bounds of the model *)

MaxEntries == 2
MaxInvoices == 2
MaxPayments == 1
MaxProjects == 2
\* the journal entries and payments of the ledger the reports are read from
MaxLedgerEntries == 3
MaxLedgerPayments == 2
\* the accounts created besides the seeded ones
MaxNewAccounts == 1
\* the journal entries of the numbering specification
MaxNumbered == 4
\* the requests that can be in flight at once
MaxRequests == 2
\* the payments of the invoices two requests pay at once
MaxRacedPayments == 2
\* the invoices of the requests that create invoices at once
MaxRacedInvoices == 3
\* the rows the requests of the frame specification create
MaxRows == 4

----------------------------------------------------------------------------
(* Amounts *)

\* half cents in one cent: the scale of DECIMAL(15, 2)
CentUnits == 2

\* 0.01, the tolerance of the debit/credit comparison
Tolerance == 2

Abs(x) == IF x < 0 THEN -x ELSE x

\* a value written to a DECIMAL(15,2) column: rounded to whole cents, ties away from zero
RoundCents(x) ==
    IF x >= 0 THEN ((x + (CentUnits \div 2)) \div CentUnits) * CentUnits
              ELSE -((((-x) + (CentUnits \div 2)) \div CentUnits) * CentUnits)

RECURSIVE SumSeq(_)
SumSeq(s) == IF s = <<>> THEN 0 ELSE Head(s) + SumSeq(Tail(s))

Map(F(_), s) == [k \in 1..Len(s) |-> F(s[k])]

----------------------------------------------------------------------------
(* The chart of accounts *)

AccountType == {"ASSET", "LIABILITY", "EQUITY", "REVENUE", "EXPENSE"}

SeedAccounts ==
    << [code |-> "1000", type |-> "ASSET"],
       [code |-> "1100", type |-> "ASSET"],
       [code |-> "1200", type |-> "ASSET"],
       [code |-> "1500", type |-> "ASSET"],
       [code |-> "2000", type |-> "LIABILITY"],
       [code |-> "2100", type |-> "LIABILITY"],
       [code |-> "2500", type |-> "LIABILITY"],
       [code |-> "3000", type |-> "EQUITY"],
       [code |-> "3100", type |-> "EQUITY"],
       [code |-> "4000", type |-> "REVENUE"],
       [code |-> "4100", type |-> "REVENUE"],
       [code |-> "5000", type |-> "EXPENSE"],
       [code |-> "5100", type |-> "EXPENSE"],
       [code |-> "5200", type |-> "EXPENSE"],
       [code |-> "5300", type |-> "EXPENSE"] >>

\* prisma.account.findUnique({ where: { code } }): the id, or 0 for null
AccountByCode(c) ==
    IF \E a \in DOMAIN account : account[a].code = c
    THEN CHOOSE a \in DOMAIN account : account[a].code = c
    ELSE 0

\* prisma.account.update({ data: { balance: { increment: d } } })
Increment(acc, a, d) ==
    [acc EXCEPT ![a].balance = RoundCents(acc[a].balance + d)]

\* the slots of the requests in flight, and a slot with no request in it
Requests == 1..MaxRequests
Idle == [pc |-> "idle"]

Init ==
    /\ account = [a \in 1..Len(SeedAccounts) |->
                    [code |-> SeedAccounts[a].code, type |-> SeedAccounts[a].type,
                     balance |-> 0, isActive |-> TRUE]]
    /\ journalEntry = <<>>
    /\ invoice = <<>>
    /\ nextInvoiceId = 1
    /\ payment = <<>>
    /\ project = <<>>
    /\ cashFlow = <<>>
    /\ auditLog = {}
    /\ res = [op |-> "none", status |-> 0]
    /\ request = [r \in Requests |-> Idle]

\* the response of a handler that ran from its first database call to its response
\* with no other request in between: the requests in flight are where they were
Respond(op, status) == res' = [op |-> op, status |-> status] /\ UNCHANGED request

\* a request that throws before its first write
Fail(op, status) == Respond(op, status) /\ UNCHANGED <<db, auditLog>>

Audit(action, entity, id) == auditLog' = auditLog \cup {<<action, entity, id>>}

----------------------------------------------------------------------------
(* Journal entries *)

\* a generator that numbers from the count, without the + 1
CountAsNumber == Len(journalEntry)

\* generateEntryNumber / generateJournalEntryNumber: the sequence part of
\* JE-<year>-<count + 1, padded to 5 digits>
generateEntryNumber == Len(journalEntry) + 1

\* a "JournalLine" row as the database keeps it
StoredLine(l) ==
    [accountId |-> l.accountId, debit |-> RoundCents(l.debit), credit |-> RoundCents(l.credit)]

TotalDebits(lines) == SumSeq(Map(LAMBDA l : l.debit, lines))
TotalCredits(lines) == SumSeq(Map(LAMBDA l : l.credit, lines))

\* prisma.journalEntry.create with nested lines; status is the column default unless given
InsertEntry(je, entryNumber, status, lines, description) ==
    Append(je, [entryNumber |-> entryNumber, status |-> status,
                lines |-> Map(StoredLine, lines), description |-> description])

\* a ledger that treats every account as debit-normal
DebitNormalChange(t, l) == l.debit - l.credit

\* the signed change one line makes to the balance of an account of type t
BalanceChange(t, l) ==
    IF t \in {"ASSET", "EXPENSE"} THEN l.debit - l.credit ELSE l.credit - l.debit

\* the loop of approveJournalEntry over entry.lines, in line order
RECURSIVE ApplyLines(_, _)
ApplyLines(acc, lines) ==
    IF lines = <<>> THEN acc
    ELSE LET l == Head(lines)
         IN  IF l.accountId \notin DOMAIN acc
             THEN ApplyLines(acc, Tail(lines))
             ELSE ApplyLines(Increment(acc, l.accountId, BalanceChange(acc[l.accountId].type, l)),
                             Tail(lines))

\* a validation that refuses only an excess of debits
ExcessDebits(lines) == TotalDebits(lines) - TotalCredits(lines) > Tolerance

\* the validation of createJournalEntry: |totalDebits - totalCredits| > 0.01
Unbalanced(lines) == Abs(TotalDebits(lines) - TotalCredits(lines)) > Tolerance

createJournalEntry(lines) ==
    IF Unbalanced(lines)
    THEN Fail("createJournalEntry", 400)
    ELSE IF \E k \in 1..Len(lines) : lines[k].accountId \notin DOMAIN account
    THEN Fail("createJournalEntry", 500)
    ELSE /\ journalEntry' = InsertEntry(journalEntry, generateEntryNumber, "DRAFT", lines,
                                        <<"manual">>)
         /\ Audit("CREATE", "JournalEntry", Len(journalEntry) + 1)
         /\ Respond("createJournalEntry", 201)
         /\ UNCHANGED <<account, invoice, nextInvoiceId, payment, project, cashFlow>>

\* a status check that refuses only REJECTED entries
NotRejected(status) == status # "REJECTED"

\* the statuses approveJournalEntry accepts
Approvable(status) == status = "PENDING" \/ status = "DRAFT"

approveJournalEntry(e) ==
    IF e \notin 1..Len(journalEntry)
    THEN Fail("approveJournalEntry", 404)
    ELSE IF ~Approvable(journalEntry[e].status)
    THEN Fail("approveJournalEntry", 400)
    ELSE /\ journalEntry' = [journalEntry EXCEPT ![e].status = "APPROVED"]
         /\ account' = ApplyLines(account, journalEntry[e].lines)
         /\ Audit("APPROVE", "JournalEntry", e)
         /\ Respond("approveJournalEntry", 200)
         /\ UNCHANGED <<invoice, nextInvoiceId, payment, project, cashFlow>>

\* a rejection that also posts the lines of the entry
rejectPosting(e) ==
    IF e \notin 1..Len(journalEntry)
    THEN Fail("rejectJournalEntry", 404)
    ELSE /\ journalEntry' = [journalEntry EXCEPT ![e].status = "REJECTED"]
         /\ account' = ApplyLines(account, journalEntry[e].lines)
         /\ Audit("REJECT", "JournalEntry", e)
         /\ Respond("rejectJournalEntry", 200)
         /\ UNCHANGED <<invoice, nextInvoiceId, payment, project, cashFlow>>

rejectJournalEntry(e) ==
    IF e \notin 1..Len(journalEntry)
    THEN Fail("rejectJournalEntry", 404)
    ELSE /\ journalEntry' = [journalEntry EXCEPT ![e].status = "REJECTED"]
         /\ Audit("REJECT", "JournalEntry", e)
         /\ Respond("rejectJournalEntry", 200)
         /\ UNCHANGED <<account, invoice, nextInvoiceId, payment, project, cashFlow>>

(* approveJournalEntry, one database call at a time.  Request r holds in its locals
   the entry it read (id, lines), the index k of the line its loop is at and the
   balanceChange it computed for that line. *)

\* prisma.journalEntry.findUnique with the lines, and the two checks on what it returned
approveRead(r, e) ==
    /\ request[r].pc = "idle"
    /\ IF e \notin 1..Len(journalEntry)
       THEN Fail("approveJournalEntry", 404)
       ELSE IF ~Approvable(journalEntry[e].status)
       THEN Fail("approveJournalEntry", 400)
       ELSE /\ request' = [request EXCEPT ![r] =
                    [pc |-> "approveUpdate", id |-> e, lines |-> journalEntry[e].lines,
                     k |-> 1, balanceChange |-> 0]]
            /\ UNCHANGED <<db, auditLog, res>>

\* where the loop over entry.lines goes when it is at line k
LoopAt(lines, k) == IF k > Len(lines) THEN "approveAudit" ELSE "approveLineRead"

\* prisma.journalEntry.update({ data: { status: 'APPROVED' } }): the update names no
\* status in its where clause
approveUpdate(r) ==
    /\ request[r].pc = "approveUpdate"
    /\ journalEntry' = [journalEntry EXCEPT ![request[r].id].status = "APPROVED"]
    /\ request' = [request EXCEPT ![r].pc = LoopAt(request[r].lines, 1)]
    /\ UNCHANGED <<account, invoice, nextInvoiceId, payment, project, cashFlow, auditLog, res>>

\* prisma.account.findUnique for line k of the entry as read, and its balanceChange
approveLineRead(r) ==
    /\ request[r].pc = "approveLineRead"
    /\ LET l == request[r].lines[request[r].k]
       IN  request' =
             IF l.accountId \notin DOMAIN account
             THEN [request EXCEPT ![r].k = @ + 1,
                                  ![r].pc = LoopAt(request[r].lines, request[r].k + 1)]
             ELSE [request EXCEPT ![r].pc = "approveLineUpdate",
                                  ![r].balanceChange = BalanceChange(account[l.accountId].type, l)]
    /\ UNCHANGED <<db, auditLog, res>>

\* prisma.account.update({ data: { balance: { increment: balanceChange } } })
approveLineUpdate(r) ==
    /\ request[r].pc = "approveLineUpdate"
    /\ account' = Increment(account, request[r].lines[request[r].k].accountId,
                            request[r].balanceChange)
    /\ request' = [request EXCEPT ![r].k = @ + 1,
                                  ![r].pc = LoopAt(request[r].lines, request[r].k + 1)]
    /\ UNCHANGED <<journalEntry, invoice, nextInvoiceId, payment, project, cashFlow,
                   auditLog, res>>

\* prisma.auditLog.create and res.json
approveRespond(r) ==
    /\ request[r].pc = "approveAudit"
    /\ Audit("APPROVE", "JournalEntry", request[r].id)
    /\ res' = [op |-> "approveJournalEntry", status |-> 200]
    /\ request' = [request EXCEPT ![r] = Idle]
    /\ UNCHANGED db

----------------------------------------------------------------------------
(* Invoices *)

InvoiceIds == DOMAIN invoice

\* generateInvoiceNumber: <prefix>-<year>-<count of the type + 1, padded to 5 digits>
generateInvoiceNumber(type) ==
    << IF type = "RECEIVABLE" THEN "INV" ELSE "BILL",
       Cardinality({i \in InvoiceIds : invoice[i].type = type}) + 1 >>

\* createInvoice: subtotal = sum of quantity * unitPrice; tax = subtotal * 0
InvoiceTotal(items) ==
    LET subtotal == SumSeq(Map(LAMBDA it : it.quantity * it.unitPrice, items))
    IN  subtotal + subtotal * 0

\* the two lines of a system entry: debit account d, credit account c, both for amt
PostingLines(d, c, amt) ==
    << [accountId |-> d, debit |-> amt, credit |-> 0],
       [accountId |-> c, debit |-> 0, credit |-> amt] >>

createInvoice(type, items) ==
    LET total == InvoiceTotal(items)
        invoiceNumber == generateInvoiceNumber(type)
        id == nextInvoiceId
        arAccount == AccountByCode("1100")
        apAccount == AccountByCode("2000")
        revenueAccount == AccountByCode("4100")
        cogsAccount == AccountByCode("5000")
        created == [invoiceNumber |-> invoiceNumber, type |-> type,
                    total |-> RoundCents(total), status |-> "DRAFT"]
    IN
    IF \E i \in InvoiceIds : invoice[i].invoiceNumber = invoiceNumber
    THEN Fail("createInvoice", 500)
    ELSE /\ invoice' = (id :> created) @@ invoice
         /\ nextInvoiceId' = nextInvoiceId + 1
         /\ IF type = "RECEIVABLE" /\ arAccount # 0 /\ revenueAccount # 0
            THEN /\ journalEntry' = InsertEntry(journalEntry, generateEntryNumber, "APPROVED",
                                        PostingLines(arAccount, revenueAccount, total),
                                        <<"Invoice", invoiceNumber>>)
                 /\ account' = Increment(Increment(account, arAccount, total),
                                         revenueAccount, total)
            ELSE IF type = "PAYABLE" /\ apAccount # 0 /\ cogsAccount # 0
            THEN /\ journalEntry' = InsertEntry(journalEntry, generateEntryNumber, "APPROVED",
                                        PostingLines(cogsAccount, apAccount, total),
                                        <<"Bill", invoiceNumber>>)
                 /\ account' = Increment(Increment(account, cogsAccount, total),
                                         apAccount, total)
            ELSE UNCHANGED <<journalEntry, account>>
         /\ Audit("CREATE", "Invoice", id)
         /\ Respond("createInvoice", 201)
         /\ UNCHANGED <<payment, project, cashFlow>>

\* status is the request's status, "" when the request has none
updateInvoice(i, status) ==
    IF i \notin InvoiceIds
    THEN Fail("updateInvoice", 404)
    ELSE IF invoice[i].status = "PAID"
    THEN Fail("updateInvoice", 400)
    ELSE /\ invoice' = [invoice EXCEPT ![i].status =
                            IF status # "" THEN status ELSE invoice[i].status]
         /\ Audit("UPDATE", "Invoice", i)
         /\ Respond("updateInvoice", 200)
         /\ UNCHANGED <<account, journalEntry, nextInvoiceId, payment, project, cashFlow>>

\* the payments of invoice i (include: { payments: true }), as indexes into payment
PaymentsOf(i) == {k \in 1..Len(payment) : payment[k].invoiceId = i}

RECURSIVE SumAmounts(_)
SumAmounts(ks) ==
    IF ks = {} THEN 0
    ELSE LET k == CHOOSE x \in ks : TRUE IN payment[k].amount + SumAmounts(ks \ {k})

\* invoice.payments.reduce((sum, p) => sum.plus(p.amount), 0)
TotalPaid(i) == SumAmounts(PaymentsOf(i))

deleteInvoice(i) ==
    IF i \notin InvoiceIds
    THEN Fail("deleteInvoice", 404)
    ELSE IF PaymentsOf(i) # {}
    THEN Fail("deleteInvoice", 400)
    ELSE /\ invoice' = [j \in InvoiceIds \ {i} |-> invoice[j]]
         /\ Audit("DELETE", "Invoice", i)
         /\ Respond("deleteInvoice", 200)
         /\ UNCHANGED <<account, journalEntry, nextInvoiceId, payment, project, cashFlow>>

----------------------------------------------------------------------------
(* Payments *)

\* generatePaymentNumber, and the same lines in recordPayment: the sequence part of
\* PAY-<year>-<count + 1, padded to 5 digits>
generatePaymentNumber == Len(payment) + 1

\* the UNIQUE constraint on Payment.paymentNumber
PaymentNumberUnique(number) == \A k \in 1..Len(payment) : payment[k].paymentNumber # number

\* prisma.payment.create: the amount column is DECIMAL(15, 2)
InsertPayment(number, i, amount) ==
    Append(payment, [paymentNumber |-> number, invoiceId |-> i, amount |-> RoundCents(amount)])

\* what recordPayment writes from prisma.payment.create on, for the invoice row inv
\* (id i) and the sum totalPaid of its payments as the handler read them
recordPaymentWrites(i, inv, totalPaid, number, amount) ==
    LET newTotalPaid == totalPaid + amount
        isFullyPaid == newTotalPaid >= inv.total
        cashAccount == AccountByCode("1000")
        arAccount == AccountByCode("1100")
        apAccount == AccountByCode("2000")
        received == inv.type = "RECEIVABLE" /\ arAccount # 0
    IN
    /\ payment' = InsertPayment(number, i, amount)
    /\ invoice' = [invoice EXCEPT ![i].status = IF isFullyPaid THEN "PAID" ELSE "PARTIAL"]
    /\ IF cashAccount # 0 /\ (arAccount # 0 \/ apAccount # 0) /\ (received \/ apAccount # 0)
       THEN /\ journalEntry' = InsertEntry(journalEntry, generateEntryNumber, "APPROVED",
                   IF received THEN PostingLines(cashAccount, arAccount, amount)
                               ELSE PostingLines(apAccount, cashAccount, amount),
                   <<"Payment", inv.invoiceNumber>>)
            /\ account' =
                   IF received
                   THEN Increment(Increment(account, cashAccount, amount),
                                  arAccount, -amount)
                   ELSE Increment(Increment(account, apAccount, -amount),
                                  cashAccount, -amount)
            /\ auditLog' = auditLog \cup {<<"CREATE", "JournalEntry", Len(journalEntry) + 1>>,
                                          <<"CREATE", "Payment", Len(payment) + 1>>}
       ELSE /\ UNCHANGED <<journalEntry, account>>
            /\ Audit("CREATE", "Payment", Len(payment) + 1)
    /\ UNCHANGED <<nextInvoiceId, project, cashFlow>>

\* recordPayment, POST /api/invoices/:id/payments (no request schema on the route)
recordPayment(i, amount) ==
    IF i \notin InvoiceIds
    THEN Fail("recordPayment", 404)
    ELSE IF invoice[i].status = "PAID"
    THEN Fail("recordPayment", 400)
    ELSE IF amount > invoice[i].total - TotalPaid(i)
    THEN Fail("recordPayment", 400)
    ELSE /\ recordPaymentWrites(i, invoice[i], TotalPaid(i), generatePaymentNumber, amount)
         /\ Respond("recordPayment", 201)

\* createPaymentSchema: amount is z.number().positive()
createPaymentSchema(amount) == amount > 0

\* the paymentDate of a createPayment request, for a client that sends the day of the
\* request: days are counted by the cash flow records written so far
Today == Len(cashFlow) + 1

\* what createPayment writes from prisma.payment.create on, for the invoice row inv
\* (id i) and the sum paidAmount of its payments as the handler read them
createPaymentWrites(i, inv, paidAmount, number, amount) ==
    LET newPaidAmount == paidAmount + amount
        newStatus == IF newPaidAmount = inv.total THEN "PAID" ELSE "PARTIAL"
    IN
    /\ payment' = InsertPayment(number, i, amount)
    /\ invoice' = [invoice EXCEPT ![i].status = newStatus]
    /\ cashFlow' = Append(cashFlow,
           [date |-> Today,
            type |-> IF inv.type = "RECEIVABLE" THEN "INFLOW" ELSE "OUTFLOW",
            category |-> IF inv.type = "RECEIVABLE" THEN "Customer Payment"
                                                    ELSE "Vendor Payment",
            amount |-> RoundCents(amount)])
    /\ Audit("CREATE", "Payment", Len(payment) + 1)
    /\ UNCHANGED <<account, journalEntry, nextInvoiceId, project>>

\* createPayment, POST /api/payments
createPayment(i, amount) ==
    IF i \notin InvoiceIds
    THEN Fail("createPayment", 404)
    ELSE IF amount > invoice[i].total - TotalPaid(i)
    THEN Fail("createPayment", 400)
    ELSE /\ createPaymentWrites(i, invoice[i], TotalPaid(i), generatePaymentNumber, amount)
         /\ Respond("createPayment", 201)

(* recordPayment and createPayment, between their database calls.  Request r holds
   in its locals the invoice row it read (id, inv), the sum of the payments it read
   with it (paid), the amount of the request and the payment number it generated. *)

\* the locals of a payment request after its first read
PaymentLocals(pc, i, amount) ==
    [pc |-> pc, id |-> i, inv |-> invoice[i], paid |-> TotalPaid(i), amount |-> amount,
     paymentNumber |-> 0]

\* a request in flight answers, and is in flight no longer
Answer(r, op, status) ==
    /\ res' = [op |-> op, status |-> status]
    /\ request' = [request EXCEPT ![r] = Idle]

\* prisma.invoice.findUnique with the payments, and the checks of recordPayment
recordPaymentRead(r, i, amount) ==
    /\ request[r].pc = "idle"
    /\ IF i \notin InvoiceIds
       THEN Fail("recordPayment", 404)
       ELSE IF invoice[i].status = "PAID"
       THEN Fail("recordPayment", 400)
       ELSE IF amount > invoice[i].total - TotalPaid(i)
       THEN Fail("recordPayment", 400)
       ELSE /\ request' = [request EXCEPT ![r] = PaymentLocals("recordPaymentCount", i, amount)]
            /\ UNCHANGED <<db, auditLog, res>>

\* prisma.payment.count, and the payment number made of it
recordPaymentCount(r) ==
    /\ request[r].pc = "recordPaymentCount"
    /\ request' = [request EXCEPT ![r].pc = "recordPaymentCreate",
                                  ![r].paymentNumber = generatePaymentNumber]
    /\ UNCHANGED <<db, auditLog, res>>

\* prisma.payment.create, which fails on a payment number that is taken, and the
\* writes after it up to the response
recordPaymentCreate(r) ==
    /\ request[r].pc = "recordPaymentCreate"
    /\ IF ~PaymentNumberUnique(request[r].paymentNumber)
       THEN Answer(r, "recordPayment", 500) /\ UNCHANGED <<db, auditLog>>
       ELSE /\ recordPaymentWrites(request[r].id, request[r].inv, request[r].paid,
                                   request[r].paymentNumber, request[r].amount)
            /\ Answer(r, "recordPayment", 201)

\* prisma.invoice.findUnique with the payments, and the checks of createPayment
createPaymentRead(r, i, amount) ==
    /\ request[r].pc = "idle"
    /\ IF i \notin InvoiceIds
       THEN Fail("createPayment", 404)
       ELSE IF amount > invoice[i].total - TotalPaid(i)
       THEN Fail("createPayment", 400)
       ELSE /\ request' = [request EXCEPT ![r] = PaymentLocals("createPaymentCount", i, amount)]
            /\ UNCHANGED <<db, auditLog, res>>

\* generatePaymentNumber
createPaymentCount(r) ==
    /\ request[r].pc = "createPaymentCount"
    /\ request' = [request EXCEPT ![r].pc = "createPaymentCreate",
                                  ![r].paymentNumber = generatePaymentNumber]
    /\ UNCHANGED <<db, auditLog, res>>

\* prisma.payment.create, which fails on a payment number that is taken, and the
\* writes after it up to the response
createPaymentCreate(r) ==
    /\ request[r].pc = "createPaymentCreate"
    /\ IF ~PaymentNumberUnique(request[r].paymentNumber)
       THEN Answer(r, "createPayment", 500) /\ UNCHANGED <<db, auditLog>>
       ELSE /\ createPaymentWrites(request[r].id, request[r].inv, request[r].paid,
                                   request[r].paymentNumber, request[r].amount)
            /\ Answer(r, "createPayment", 201)

(* createInvoice, between its database calls.  Request r holds in its locals the
   type and the total of the request, the invoice number it generated, the ids of
   the accounts it debits and credits and the entry number it generated. *)

\* the UNIQUE constraint on JournalEntry.entryNumber
EntryNumberUnique(number) ==
    \A e \in 1..Len(journalEntry) : journalEntry[e].entryNumber # number

\* the totals, and generateInvoiceNumber
createInvoiceNumber(r, type, items) ==
    /\ request[r].pc = "idle"
    /\ request' = [request EXCEPT ![r] =
            [pc |-> "createInvoiceCreate", type |-> type, total |-> InvoiceTotal(items),
             invoiceNumber |-> generateInvoiceNumber(type), id |-> 0,
             debit |-> 0, credit |-> 0, entryNumber |-> 0]]
    /\ UNCHANGED <<db, auditLog, res>>

\* prisma.invoice.create, which fails on an invoice number that is taken, and the four
\* prisma.account.findUnique that choose the posting rule
createInvoiceCreate(r) ==
    LET type == request[r].type
        arAccount == AccountByCode("1100")
        apAccount == AccountByCode("2000")
        revenueAccount == AccountByCode("4100")
        cogsAccount == AccountByCode("5000")
        created == [invoiceNumber |-> request[r].invoiceNumber, type |-> type,
                    total |-> RoundCents(request[r].total), status |-> "DRAFT"]
    IN
    /\ request[r].pc = "createInvoiceCreate"
    /\ IF \E i \in InvoiceIds : invoice[i].invoiceNumber = request[r].invoiceNumber
       THEN Answer(r, "createInvoice", 500) /\ UNCHANGED <<db, auditLog>>
       ELSE /\ invoice' = (nextInvoiceId :> created) @@ invoice
            /\ nextInvoiceId' = nextInvoiceId + 1
            /\ request' =
                  IF type = "RECEIVABLE" /\ arAccount # 0 /\ revenueAccount # 0
                  THEN [request EXCEPT ![r].pc = "createInvoiceEntryNumber",
                                       ![r].id = nextInvoiceId,
                                       ![r].debit = arAccount, ![r].credit = revenueAccount]
                  ELSE IF type = "PAYABLE" /\ apAccount # 0 /\ cogsAccount # 0
                  THEN [request EXCEPT ![r].pc = "createInvoiceEntryNumber",
                                       ![r].id = nextInvoiceId,
                                       ![r].debit = cogsAccount, ![r].credit = apAccount]
                  ELSE [request EXCEPT ![r].pc = "createInvoiceAudit", ![r].id = nextInvoiceId]
            /\ UNCHANGED <<account, journalEntry, payment, project, cashFlow, auditLog, res>>

\* generateJournalEntryNumber
createInvoiceEntryNumber(r) ==
    /\ request[r].pc = "createInvoiceEntryNumber"
    /\ request' = [request EXCEPT ![r].pc = "createInvoiceEntry",
                                  ![r].entryNumber = generateEntryNumber]
    /\ UNCHANGED <<db, auditLog, res>>

\* prisma.journalEntry.create, which fails on an entry number that is taken: the error
\* goes to the error middleware and nothing the request wrote before is undone
createInvoiceEntry(r) ==
    /\ request[r].pc = "createInvoiceEntry"
    /\ IF ~EntryNumberUnique(request[r].entryNumber)
       THEN Answer(r, "createInvoice", 500) /\ UNCHANGED <<db, auditLog>>
       ELSE /\ journalEntry' = InsertEntry(journalEntry, request[r].entryNumber, "APPROVED",
                    PostingLines(request[r].debit, request[r].credit, request[r].total),
                    << IF request[r].type = "RECEIVABLE" THEN "Invoice" ELSE "Bill",
                       request[r].invoiceNumber >>)
            /\ request' = [request EXCEPT ![r].pc = "createInvoiceBalances"]
            /\ UNCHANGED <<account, invoice, nextInvoiceId, payment, project, cashFlow,
                           auditLog, res>>

\* the two prisma.account.update of the posting rule
createInvoiceBalances(r) ==
    /\ request[r].pc = "createInvoiceBalances"
    /\ account' = Increment(Increment(account, request[r].debit, request[r].total),
                            request[r].credit, request[r].total)
    /\ request' = [request EXCEPT ![r].pc = "createInvoiceAudit"]
    /\ UNCHANGED <<journalEntry, invoice, nextInvoiceId, payment, project, cashFlow,
                   auditLog, res>>

\* prisma.auditLog.create and res.status(201).json
createInvoiceRespond(r) ==
    /\ request[r].pc = "createInvoiceAudit"
    /\ Audit("CREATE", "Invoice", request[r].id)
    /\ Answer(r, "createInvoice", 201)
    /\ UNCHANGED db

----------------------------------------------------------------------------
(* Projects *)

\* createProjectSchema: budget is z.number().positive()
createProject(budget) ==
    /\ project' = Append(project, [status |-> "PLANNING", budget |-> RoundCents(budget)])
    /\ Audit("CREATE", "Project", Len(project) + 1)
    /\ Respond("createProject", 201)
    /\ UNCHANGED <<account, journalEntry, invoice, nextInvoiceId, payment, cashFlow>>

\* a ledger that posts on every request with status COMPLETED
SetsCompleted(status, stored) == status = "COMPLETED"

\* the request sets COMPLETED and the stored status is another
isCompletingProject(status, stored) == status = "COMPLETED" /\ stored # "COMPLETED"

\* status and budget are the request's, "" and 0 when the request has none
\* (updateProjectSchema: budget is z.number().positive().optional())
updateProject(p, status, budget) ==
    IF p \notin 1..Len(project)
    THEN Fail("updateProject", 404)
    ELSE
    LET arAccount == AccountByCode("1100")
        revenueAccount == AccountByCode("4100")
        budgetAmount == project[p].budget
    IN
    /\ project' = [project EXCEPT
            ![p].status = IF status # "" THEN status ELSE @,
            ![p].budget = IF budget # 0 THEN RoundCents(budget) ELSE @]
    /\ IF isCompletingProject(status, project[p].status)
          /\ arAccount # 0 /\ revenueAccount # 0
       THEN \* createProjectRevenueEntry
            /\ journalEntry' = InsertEntry(journalEntry, generateEntryNumber, "APPROVED",
                                   PostingLines(arAccount, revenueAccount, budgetAmount),
                                   <<"Revenue recognition", p>>)
            /\ account' = Increment(Increment(account, arAccount, budgetAmount),
                                    revenueAccount, budgetAmount)
            /\ auditLog' = auditLog \cup {<<"CREATE", "JournalEntry", Len(journalEntry) + 1>>,
                                          <<"UPDATE", "Project", p>>}
       ELSE /\ UNCHANGED <<journalEntry, account>>
            /\ Audit("UPDATE", "Project", p)
    /\ Respond("updateProject", 200)
    /\ UNCHANGED <<invoice, nextInvoiceId, payment, cashFlow>>

----------------------------------------------------------------------------
(* Accounts *)

\* a table without the UNIQUE constraint on code
NoConstraint(acc, a, code) == TRUE

\* the UNIQUE constraint on Account.code, for account a taking the code
CodeUnique(acc, a, code) == \A b \in DOMAIN acc \ {a} : acc[b].code # code

\* createAccount, POST /api/accounts
createAccount(code, type) ==
    IF AccountByCode(code) # 0
    THEN Fail("createAccount", 400)
    ELSE IF ~CodeUnique(account, 0, code)
    THEN Fail("createAccount", 500)
    ELSE /\ account' = Append(account,
                [code |-> code, type |-> type, balance |-> 0, isActive |-> TRUE])
         /\ Audit("CREATE", "Account", Len(account) + 1)
         /\ Respond("createAccount", 201)
         /\ UNCHANGED <<journalEntry, invoice, nextInvoiceId, payment, project, cashFlow>>

\* code and type are the request's, "" when the request has none
updateAccount(a, code, type) ==
    IF a \notin DOMAIN account
    THEN Fail("updateAccount", 404)
    ELSE
    LET newCode == IF code # "" THEN code ELSE account[a].code
        newType == IF type # "" THEN type ELSE account[a].type
    IN
    IF ~CodeUnique(account, a, newCode)
    THEN Fail("updateAccount", 500)
    ELSE /\ account' = [account EXCEPT ![a].code = newCode, ![a].type = newType]
         /\ Audit("UPDATE", "Account", a)
         /\ Respond("updateAccount", 200)
         /\ UNCHANGED <<journalEntry, invoice, nextInvoiceId, payment, project, cashFlow>>

----------------------------------------------------------------------------
(* Reports *)

\* the sum of the balances of the active accounts of type t
TypeTotal(t) ==
    SumSeq([a \in DOMAIN account |->
               IF account[a].isActive /\ account[a].type = t THEN account[a].balance ELSE 0])

\* the data of getBalanceSheet
BalanceSheet ==
    LET totalAssets == TypeTotal("ASSET")
        totalLiabilities == TypeTotal("LIABILITY")
        totalEquity == TypeTotal("EQUITY")
    IN  [totalAssets |-> totalAssets,
         totalLiabilities |-> totalLiabilities,
         totalEquity |-> totalEquity,
         isBalanced |-> Abs(totalAssets - (totalLiabilities + totalEquity)) < Tolerance]

\* the data of getProfitLoss
ProfitLoss ==
    LET totalRevenue == TypeTotal("REVENUE")
        totalExpenses == TypeTotal("EXPENSE")
    IN  [totalRevenue |-> totalRevenue,
         totalExpenses |-> totalExpenses,
         netIncome |-> totalRevenue - totalExpenses]

\* getBalanceSheet, GET /api/reports/balance-sheet
getBalanceSheet ==
    /\ res' = [op |-> "getBalanceSheet", status |-> 200, data |-> BalanceSheet]
    /\ UNCHANGED request
    /\ UNCHANGED <<db, auditLog>>

\* getProfitLoss, GET /api/reports/profit-loss
getProfitLoss ==
    /\ res' = [op |-> "getProfitLoss", status |-> 200, data |-> ProfitLoss]
    /\ UNCHANGED request
    /\ UNCHANGED <<db, auditLog>>

\* the "CashFlow" rows with a date from start to end (gte, lte) of a category
CashFlowsIn(start, end, category) ==
    {k \in 1..Len(cashFlow) :
        /\ start <= cashFlow[k].date /\ cashFlow[k].date <= end
        /\ cashFlow[k].category = category}

\* calculateTotal: INFLOW counts as the amount, OUTFLOW as its negative
RECURSIVE calculateTotal(_)
calculateTotal(items) ==
    IF items = {} THEN 0
    ELSE LET k == CHOOSE x \in items : TRUE
         IN  (IF cashFlow[k].type = "INFLOW" THEN cashFlow[k].amount ELSE -cashFlow[k].amount)
             + calculateTotal(items \ {k})

\* the data of getCashFlowStatement
CashFlowStatement(start, end) ==
    LET operatingTotal == calculateTotal(CashFlowsIn(start, end, "OPERATING"))
        investingTotal == calculateTotal(CashFlowsIn(start, end, "INVESTING"))
        financingTotal == calculateTotal(CashFlowsIn(start, end, "FINANCING"))
    IN  [period |-> <<start, end>>,
         operatingTotal |-> operatingTotal,
         investingTotal |-> investingTotal,
         financingTotal |-> financingTotal,
         netCashChange |-> operatingTotal + investingTotal + financingTotal]

\* getCashFlowStatement, GET /api/reports/cash-flow?startDate=&endDate=
getCashFlowStatement(start, end) ==
    /\ res' = [op |-> "getCashFlowStatement", status |-> 200,
               data |-> CashFlowStatement(start, end)]
    /\ UNCHANGED request
    /\ UNCHANGED <<db, auditLog>>

----------------------------------------------------------------------------
(* Requests *)

Line(a, d, c) == [accountId |-> a, debit |-> d, credit |-> c]
Item(q, u) == [quantity |-> q, unitPrice |-> u]

\* the id of the seeded account with code c
SeedId(c) == CHOOSE a \in 1..Len(SeedAccounts) : SeedAccounts[a].code = c
Cash == SeedId("1000")
Receivable == SeedId("1100")
ServiceRevenue == SeedId("4100")

\* a request is taken while the tables are within the bounds, or when it fails
Within(ok) == res'.status < 400 => ok

InvoiceStatusInputs == {"", "PAID"}
PaymentAmounts == {-2, 0, 1, 2, 4}
AccountCodeInputs == {"1000", "1101"}
AccountTypeInputs == {"LIABILITY"}

InvoiceTypes == {"RECEIVABLE", "PAYABLE"}
InvoiceItems == { << Item(1, 1) >>, << Item(1, 2), Item(1, 2) >>, << Item(1, -1) >> }

\* the lines a manual entry is made of: debits of 0.005 and of 0.02, and a line with
\* both a debit (0.01) and a credit (0.03)
JournalLines ==
    { Line(Cash, 1, 0), Line(Cash, 4, 0), Line(ServiceRevenue, 2, 6) }

\* createJournalEntrySchema: at least 2 lines, debit and credit at least 0
createJournalEntrySchema(lines) ==
    /\ Len(lines) >= 2
    /\ \A k \in 1..Len(lines) : lines[k].debit >= 0 /\ lines[k].credit >= 0

JournalEntryInputs == [1..2 -> JournalLines]

(* The journal: manual entries and the entries invoices post, their approval and
   rejection, and account updates *)
NextJournal ==
    \/ \E lines \in JournalEntryInputs :
          /\ createJournalEntrySchema(lines)
          /\ createJournalEntry(lines)
          /\ Within(Len(journalEntry) < MaxEntries)
    \/ \E e \in 1..MaxEntries : approveJournalEntry(e)
    \/ \E e \in 1..MaxEntries : rejectJournalEntry(e)
    \/ \E type \in AccountTypeInputs : updateAccount(Cash, "", type)
    \/ /\ createInvoice("RECEIVABLE", << Item(1, 1) >>)
       /\ Within(nextInvoiceId <= MaxInvoices /\ Len(journalEntry) < MaxEntries)

SpecJournal == Init /\ [][NextJournal]_vars

\* the journal with requests arriving for ever: a request that can be made is made
SpecJournalLive == SpecJournal /\ WF_vars(NextJournal)

(* Invoices and payments *)
NextInvoice ==
    \/ \E type \in InvoiceTypes, items \in InvoiceItems :
          /\ createInvoice(type, items)
          /\ Within(nextInvoiceId <= MaxInvoices /\ Len(journalEntry) < MaxEntries)
    \/ \E i \in 1..MaxInvoices, status \in InvoiceStatusInputs : updateInvoice(i, status)
    \/ \E i \in 1..MaxInvoices, amount \in PaymentAmounts :
          /\ createPaymentSchema(amount)
          /\ createPayment(i, amount)
          /\ Within(Len(payment) < MaxPayments)
    \/ \E i \in 1..MaxInvoices, amount \in PaymentAmounts :
          /\ recordPayment(i, amount)
          /\ Within(Len(payment) < MaxPayments /\ Len(journalEntry) < MaxEntries)
    \/ \E code \in AccountCodeInputs : updateAccount(Receivable, code, "")

SpecInvoice == Init /\ [][NextInvoice]_vars

\* a manual entry that is exactly balanced: debit Cash 0.02 and 0.01, credit 0.03
BalancedEntry == << Line(Cash, 4, 0), Line(ServiceRevenue, 2, 6) >>

(* The ledger the reports are read from: invoices, payments through recordPayment,
   project completions and approvals of exactly balanced manual entries *)
NextLedger ==
    \/ \E type \in InvoiceTypes :
          /\ createInvoice(type, << Item(1, 4) >>)
          /\ Within(nextInvoiceId <= MaxInvoices /\ Len(journalEntry) < MaxLedgerEntries)
    \/ \E i \in 1..MaxInvoices, amount \in {1, 4} :
          /\ recordPayment(i, amount)
          /\ Within(Len(payment) < MaxLedgerPayments /\ Len(journalEntry) < MaxLedgerEntries)
    \/ /\ createProject(4)
       /\ Within(Len(project) < MaxProjects)
    \/ \E p \in 1..MaxProjects :
          /\ updateProject(p, "COMPLETED", 0)
          /\ Within(Len(journalEntry') <= MaxLedgerEntries)
    \/ /\ createJournalEntrySchema(BalancedEntry)
       /\ TotalDebits(BalancedEntry) = TotalCredits(BalancedEntry)
       /\ createJournalEntry(BalancedEntry)
       /\ Within(Len(journalEntry) < MaxLedgerEntries)
    \/ \E e \in 1..MaxLedgerEntries : approveJournalEntry(e)
    \/ getBalanceSheet
    \/ getProfitLoss
SpecLedger == Init /\ [][NextLedger]_vars

\* the codes of account requests: two seeded codes, two new ones, and none
NewAccountCodes == {"1000", "6000"}
AccountCodes == {"", "1000", "1100", "1101", "6000"}

(* The chart of accounts: creation of accounts and updates of code and type *)
NextAccount ==
    \/ \E code \in NewAccountCodes, type \in {"ASSET", "EXPENSE"} :
          /\ createAccount(code, type)
          /\ Within(Len(account) < Len(SeedAccounts) + MaxNewAccounts)
    \/ \E a \in {Cash, Receivable} \cup (Len(SeedAccounts) + 1)..(Len(SeedAccounts) + MaxNewAccounts),
          code \in AccountCodes, type \in {"", "LIABILITY"} :
          updateAccount(a, code, type)
SpecAccount == Init /\ [][NextAccount]_vars

(* Approvals in flight together: manual entries, and approveJournalEntry taken one
   database call at a time by each of the requests *)
NextApproval ==
    \/ /\ createJournalEntry(BalancedEntry)
       /\ Within(Len(journalEntry) < MaxEntries)
    \/ \E r \in Requests, e \in 1..MaxEntries : approveRead(r, e)
    \/ \E r \in Requests : approveUpdate(r)
    \/ \E r \in Requests : approveLineRead(r)
    \/ \E r \in Requests : approveLineUpdate(r)
    \/ \E r \in Requests : approveRespond(r)

SpecApproval == Init /\ [][NextApproval]_vars

\* whole-cent amounts of 0.01 and 0.02
RacedAmounts == {2, 4}

\* the requests between two of their database calls
InFlight == {r \in Requests : request[r].pc # "idle"}

(* Payments in flight together: invoices of 0.02, and recordPayment and createPayment
   taken from one database call to the next by each of the requests *)
NextPaymentRace ==
    \/ \E type \in InvoiceTypes :
          /\ createInvoice(type, << Item(1, 4) >>)
          /\ Within(nextInvoiceId <= MaxInvoices)
    \/ \E r \in Requests, i \in 1..MaxInvoices, amount \in RacedAmounts :
          /\ Len(payment) + Cardinality(InFlight) < MaxRacedPayments
          /\ recordPaymentRead(r, i, amount)
    \/ \E r \in Requests : recordPaymentCount(r)
    \/ \E r \in Requests : recordPaymentCreate(r)
    \/ \E r \in Requests, i \in 1..MaxInvoices, amount \in RacedAmounts :
          /\ Len(payment) + Cardinality(InFlight) < MaxRacedPayments
          /\ createPaymentSchema(amount)
          /\ createPaymentRead(r, i, amount)
    \/ \E r \in Requests : createPaymentCount(r)
    \/ \E r \in Requests : createPaymentCreate(r)

SpecPaymentRace == Init /\ [][NextPaymentRace]_vars

(* Invoices in flight together: createInvoice for an invoice of 0.02, taken from one
   database call to the next by each of the requests *)
NextInvoiceRace ==
    \/ \E r \in Requests, type \in InvoiceTypes :
          /\ nextInvoiceId + Cardinality(InFlight) <= MaxRacedInvoices
          /\ createInvoiceNumber(r, type, << Item(1, 4) >>)
    \/ \E r \in Requests : createInvoiceCreate(r)
    \/ \E r \in Requests : createInvoiceEntryNumber(r)
    \/ \E r \in Requests : createInvoiceEntry(r)
    \/ \E r \in Requests : createInvoiceBalances(r)
    \/ \E r \in Requests : createInvoiceRespond(r)

SpecInvoiceRace == Init /\ [][NextInvoiceRace]_vars

\* the rows created since the seed
Rows ==
    (Len(account) - Len(SeedAccounts)) + Len(journalEntry) + (nextInvoiceId - 1)
        + Len(payment) + Len(project)

(* Every handler that writes: the requests that post to the ledger and the requests
   that must leave the balances alone *)
NextWrites ==
    \/ /\ createJournalEntrySchema(BalancedEntry)
       /\ createJournalEntry(BalancedEntry)
       /\ Within(Rows' <= MaxRows)
    \/ \E e \in 1..Len(journalEntry) : approveJournalEntry(e)
    \/ \E e \in 1..Len(journalEntry) : rejectJournalEntry(e)
    \/ /\ createAccount("6000", "EXPENSE")
       /\ Within(Rows' <= MaxRows)
    \/ updateAccount(Cash, "1001", "LIABILITY")
    \/ /\ createInvoice("RECEIVABLE", << Item(1, 4) >>)
       /\ Within(Rows' <= MaxRows)
    \/ \E i \in InvoiceIds : updateInvoice(i, "SENT")
    \/ \E i \in InvoiceIds : deleteInvoice(i)
    \/ \E i \in InvoiceIds :
          /\ recordPayment(i, 2)
          /\ Within(Rows' <= MaxRows)
    \/ /\ createProject(4)
       /\ Within(Rows' <= MaxRows)
    \/ \E p \in 1..Len(project) :
          /\ updateProject(p, "COMPLETED", 0)
          /\ Within(Rows' <= MaxRows)

SpecWrites == Init /\ [][NextWrites]_vars

(* Billing with the seeded chart of accounts untouched: invoices of 0.02, payments of
   0.01 and 0.02 on both payment routes, and the deletion of invoices *)
NextBilling ==
    \/ \E type \in InvoiceTypes :
          /\ createInvoice(type, << Item(1, 4) >>)
          /\ Within(nextInvoiceId <= MaxInvoices)
    \/ \E i \in 1..MaxInvoices, amount \in RacedAmounts :
          /\ recordPayment(i, amount)
          /\ Within(Len(payment) < MaxLedgerPayments)
    \/ \E i \in 1..MaxInvoices, amount \in RacedAmounts :
          /\ createPaymentSchema(amount)
          /\ createPayment(i, amount)
          /\ Within(Len(payment) < MaxLedgerPayments)
    \/ \E i \in 1..MaxInvoices : deleteInvoice(i)

SpecBilling == Init /\ [][NextBilling]_vars

\* the days a cash flow statement is asked from and to
Days == 1..(MaxLedgerPayments + 1)

(* The cash flow statement: invoices of 0.02, payments through createPayment, which
   writes the cash flow records, and statements for every range of days *)
NextCashFlow ==
    \/ \E type \in InvoiceTypes :
          /\ createInvoice(type, << Item(1, 4) >>)
          /\ Within(nextInvoiceId <= MaxInvoices)
    \/ \E i \in 1..MaxInvoices, amount \in RacedAmounts :
          /\ createPaymentSchema(amount)
          /\ createPayment(i, amount)
          /\ Within(Len(payment) < MaxLedgerPayments)
    \/ \E start \in Days, end \in Days : getCashFlowStatement(start, end)

SpecCashFlow == Init /\ [][NextCashFlow]_vars

(* Numbering: every request that creates a journal entry or an invoice, and the
   deletion of invoices *)
NextNumbering ==
    \/ \E type \in InvoiceTypes :
          /\ createInvoice(type, << Item(1, 4) >>)
          /\ Within(nextInvoiceId <= MaxInvoices /\ Len(journalEntry) < MaxNumbered)
    \/ \E i \in 1..MaxInvoices : deleteInvoice(i)
    \/ \E i \in 1..MaxInvoices :
          /\ recordPayment(i, 4)
          /\ Within(Len(payment) < MaxPayments /\ Len(journalEntry) < MaxNumbered)
    \/ /\ createProject(4)
       /\ Within(Len(project) < MaxProjects)
    \/ \E p \in 1..MaxProjects :
          /\ updateProject(p, "COMPLETED", 0)
          /\ Within(Len(journalEntry') <= MaxNumbered)
    \/ /\ createJournalEntrySchema(BalancedEntry)
       /\ createJournalEntry(BalancedEntry)
       /\ Within(Len(journalEntry) < MaxNumbered)
SpecNumbering == Init /\ [][NextNumbering]_vars

\* the requests on projects: budgets of 0.005 and 0.02 at creation, of 0.01 in an update
ProjectBudgets == {1, 4}
ProjectBudgetInputs == {0, 2}
ProjectStatusInputs == {"", "IN_PROGRESS", "COMPLETED"}

\* createProjectSchema: budget is z.number().positive()
createProjectSchema(budget) == budget > 0

(* Projects: their creation and updates, and the renaming of account 1100 *)
NextProject ==
    \/ \E budget \in ProjectBudgets :
          /\ createProjectSchema(budget)
          /\ createProject(budget)
          /\ Within(Len(project) < MaxProjects)
    \/ \E p \in 1..MaxProjects, status \in ProjectStatusInputs, budget \in ProjectBudgetInputs :
          /\ updateProject(p, status, budget)
          /\ Within(Len(journalEntry') <= MaxEntries)
    \/ \E code \in AccountCodeInputs : updateAccount(Receivable, code, "")
SpecProject == Init /\ [][NextProject]_vars

----------------
(* Properties of the ledger *)

EntryIds == 1..Len(journalEntry)

\* the signed delta of the lines of an entry on account a, by the type a has now:
\* debit - credit for ASSET and EXPENSE, credit - debit for the other types
RECURSIVE SignedDelta(_, _)
SignedDelta(a, lines) ==
    IF lines = <<>> THEN 0
    ELSE LET l == Head(lines)
             d == IF l.accountId # a THEN 0
                  ELSE IF account[a].type \in {"ASSET", "EXPENSE"}
                       THEN l.debit - l.credit
                       ELSE l.credit - l.debit
         IN  d + SignedDelta(a, Tail(lines))

RECURSIVE ApprovedDelta(_, _)
ApprovedDelta(a, n) ==
    IF n = 0 THEN 0
    ELSE (IF journalEntry[n].status = "APPROVED" THEN SignedDelta(a, journalEntry[n].lines)
                                                 ELSE 0)
         + ApprovedDelta(a, n - 1)

\* C1: every account's balance is the sum of the signed deltas of the lines of the
\* APPROVED entries that reference it.
BalanceInvariant ==
    \A a \in DOMAIN account : account[a].balance = ApprovedDelta(a, Len(journalEntry))

\* C2: every persisted journal entry has total debits equal to total credits within 0.01.
DoubleEntryInvariant ==
    \A e \in EntryIds :
        Abs(TotalDebits(journalEntry[e].lines) - TotalCredits(journalEntry[e].lines)) <= Tolerance

\* C3: approving an entry that is already APPROVED or REJECTED fails and leaves every
\* account and the entry as they were.
ApproveTerminalFails ==
    [][\A e \in EntryIds :
          (journalEntry[e].status \in {"APPROVED", "REJECTED"} /\ approveJournalEntry(e))
          => /\ res'.status = 400
             /\ account' = account
             /\ journalEntry' = journalEntry]_vars

\* a second approval was refused: some entry is APPROVED with its deltas applied once
ApproveTerminalWitness ==
    /\ res = [op |-> "approveJournalEntry", status |-> 400]
    /\ \E e \in EntryIds :
          /\ journalEntry[e].status = "APPROVED"
          /\ journalEntry[e].description = <<"manual">>
    /\ BalanceInvariant
    /\ \E a \in DOMAIN account : account[a].balance # 0

\* C4: the payments of an invoice (of a total that is not negative) never sum to more
\* than its total, and a payment request that exceeds the remaining amount or targets
\* a PAID invoice is rejected without a payment, a journal entry, a balance change or
\* a status change.
PaymentConsistency ==
    [][/\ \A i \in InvoiceIds : invoice[i].total >= 0 => TotalPaid(i) <= invoice[i].total
       /\ \A i \in InvoiceIds, amount \in PaymentAmounts :
             ( /\ \/ amount > invoice[i].total - TotalPaid(i)
                  \/ invoice[i].status = "PAID"
               /\ \/ recordPayment(i, amount)
                  \/ createPaymentSchema(amount) /\ createPayment(i, amount) )
             => /\ res'.status >= 400
                /\ UNCHANGED <<payment, journalEntry, account, invoice>>]_vars

\* C5: an invoice is PAID exactly when its payments sum to its total, and PARTIAL
\* exactly when they sum to more than 0 and less than the total.
StatusDerivation ==
    \A i \in InvoiceIds :
        /\ invoice[i].status = "PAID" <=> TotalPaid(i) = invoice[i].total
        /\ invoice[i].status = "PARTIAL" <=>
              (0 < TotalPaid(i) /\ TotalPaid(i) < invoice[i].total)

\* C6: an entry that is APPROVED or REJECTED keeps its status.
TerminalStatus ==
    [][\A e \in EntryIds :
          journalEntry[e].status \in {"APPROVED", "REJECTED"}
          => journalEntry'[e].status = journalEntry[e].status]_vars

NormalBalanceRule ==
    [][\A e \in EntryIds :
          (approveJournalEntry(e) /\ res'.status = 200)
          => \A a \in DOMAIN account :
                account' [a] = [account[a] EXCEPT
                    !.balance = @ + SignedDelta(a, journalEntry[e].lines)]]_vars

\* an approval posted to a credit-normal account and another to a debit-normal one
NormalBalanceWitness ==
    /\ res = [op |-> "approveJournalEntry", status |-> 200]
    /\ \E a, b \in DOMAIN account :
          /\ account[a].type \in {"ASSET", "EXPENSE"} /\ account[a].balance # 0
          /\ account[b].type \notin {"ASSET", "EXPENSE"} /\ account[b].balance # 0

\* the four accounts the invoice posting rules name exist
InvoiceAccountsExist ==
    \A c \in {"1100", "4100", "2000", "5000"} : AccountByCode(c) # 0

\* C9: with accounts 1100, 4100, 2000 and 5000, a successful createInvoice adds one
\* APPROVED entry of two lines for the invoice total, debit 1100 and credit 4100 for
\* a RECEIVABLE invoice, debit 5000 and credit 2000 for a PAYABLE one, and raises the
\* balance of both accounts by the total.
InvoicePostingRule ==
    [][\A type \in InvoiceTypes, items \in InvoiceItems :
          (InvoiceAccountsExist /\ createInvoice(type, items) /\ res'.status = 201)
          => LET n == Len(journalEntry)
                 total == invoice'[nextInvoiceId].total
                 d == AccountByCode(IF type = "RECEIVABLE" THEN "1100" ELSE "5000")
                 c == AccountByCode(IF type = "RECEIVABLE" THEN "4100" ELSE "2000")
             IN  /\ Len(journalEntry') = n + 1
                 /\ SubSeq(journalEntry', 1, n) = journalEntry
                 /\ journalEntry'[n + 1].status = "APPROVED"
                 /\ journalEntry'[n + 1].lines =
                        << [accountId |-> d, debit |-> total, credit |-> 0],
                           [accountId |-> c, debit |-> 0, credit |-> total] >>
                 /\ account'[d].balance = account[d].balance + total
                 /\ account'[c].balance = account[c].balance + total
                 /\ \A a \in DOMAIN account \ {c, d} : account'[a] = account[a]]_vars

\* the cash, receivable and payable accounts exist
PaymentAccountsExist ==
    \A c \in {"1000", "1100", "2000"} : AccountByCode(c) # 0

\* C10: with accounts 1000, 1100 and 2000, every successful payment request, on either
\* endpoint, adds one APPROVED entry for the payment amount, applies its deltas and
\* sets the invoice status.
PaymentPosts ==
    [][\A i \in InvoiceIds, amount \in PaymentAmounts :
          ( /\ PaymentAccountsExist
            /\ \/ recordPayment(i, amount)
               \/ createPaymentSchema(amount) /\ createPayment(i, amount)
            /\ res'.status = 201 )
          => LET n == Len(journalEntry)
             IN  /\ Len(journalEntry') = n + 1
                 /\ journalEntry'[n + 1].status = "APPROVED"
                 /\ TotalDebits(journalEntry'[n + 1].lines) = RoundCents(amount)
                 /\ TotalCredits(journalEntry'[n + 1].lines) = RoundCents(amount)
                 /\ BalanceInvariant => BalanceInvariant'
                 /\ invoice'[i].status \in {"PAID", "PARTIAL"}]_vars

\* C11: an entry recordPayment creates has the account pair of the invoice type: debit
\* 1000 and credit 1100 for a RECEIVABLE invoice, debit 2000 and credit 1000 for a
\* PAYABLE one, for the stored payment amount; it never posts a RECEIVABLE payment to
\* 2000; and for an amount of whole cents the balances move by that amount.
PaymentPostingRule ==
    [][\A i \in InvoiceIds, amount \in PaymentAmounts :
          ( /\ recordPayment(i, amount)
            /\ res'.status = 201
            /\ Len(journalEntry') = Len(journalEntry) + 1 )
          => LET lines == journalEntry'[Len(journalEntry')].lines
                 amt == RoundCents(amount)
                 cash == AccountByCode("1000")
                 ar == AccountByCode("1100")
                 ap == AccountByCode("2000")
             IN  IF invoice[i].type = "RECEIVABLE"
                 THEN /\ lines = << [accountId |-> cash, debit |-> amt, credit |-> 0],
                                    [accountId |-> ar, debit |-> 0, credit |-> amt] >>
                      /\ \A k \in 1..Len(lines) : ap # 0 => lines[k].accountId # ap
                      /\ amount = amt =>
                            /\ account'[cash].balance = account[cash].balance + amt
                            /\ account'[ar].balance = account[ar].balance - amt
                 ELSE /\ lines = << [accountId |-> ap, debit |-> amt, credit |-> 0],
                                    [accountId |-> cash, debit |-> 0, credit |-> amt] >>
                      /\ amount = amt =>
                            /\ account'[ap].balance = account[ap].balance - amt
                            /\ account'[cash].balance = account[cash].balance - amt]_vars

ProjectIds == 1..Len(project)

\* the revenue-recognition entries of project p
RevenueEntries(p) ==
    {e \in EntryIds : journalEntry[e].description = <<"Revenue recognition", p>>}

\* updateProject posted the completion of p: one more entry, APPROVED, debit 1100 and
\* credit 4100 for the budget stored before the request, and both balances raised by it
CompletionPosted(p) ==
    LET n == Len(journalEntry)
        ar == AccountByCode("1100")
        revenue == AccountByCode("4100")
        amt == project[p].budget
    IN  /\ Len(journalEntry') = n + 1
        /\ SubSeq(journalEntry', 1, n) = journalEntry
        /\ journalEntry'[n + 1].status = "APPROVED"
        /\ journalEntry'[n + 1].lines =
               << [accountId |-> ar, debit |-> amt, credit |-> 0],
                  [accountId |-> revenue, debit |-> 0, credit |-> amt] >>
        /\ account' = [account EXCEPT ![ar].balance = @ + amt,
                                      ![revenue].balance = @ + amt]

\* the two accounts the completion posting names exist
ProjectAccountsExist == AccountByCode("1100") # 0 /\ AccountByCode("4100") # 0

\* C12, as stated: a successful updateProject posts the completion when the request sets
\* COMPLETED and the stored status is not COMPLETED, and leaves entries and balances
\* alone when the stored status is COMPLETED.
CompletionPosting ==
    [][\A p \in ProjectIds, status \in ProjectStatusInputs, budget \in ProjectBudgetInputs :
          (updateProject(p, status, budget) /\ res'.status = 200)
          => /\ (status = "COMPLETED" /\ project[p].status # "COMPLETED")
                   => CompletionPosted(p)
             /\ project[p].status = "COMPLETED"
                   => journalEntry' = journalEntry /\ account' = account]_vars

\* C12, amended: the same with accounts 1100 and 4100 existing as a condition of the
\* posting; without them, or on any other request, entries and balances are left alone.
CompletionPostingWithAccounts ==
    [][\A p \in ProjectIds, status \in ProjectStatusInputs, budget \in ProjectBudgetInputs :
          (updateProject(p, status, budget) /\ res'.status = 200)
          => IF status = "COMPLETED" /\ project[p].status # "COMPLETED"
                /\ ProjectAccountsExist
             THEN CompletionPosted(p)
             ELSE journalEntry' = journalEntry /\ account' = account]_vars

\* a project is COMPLETED with one revenue entry, posted for a budget that a later
\* request changed, and the balance of 1100 is that one posting
CompletionPostingWitness ==
    /\ res = [op |-> "updateProject", status |-> 200]
    /\ \E p \in ProjectIds :
          /\ project[p].status = "COMPLETED"
          /\ Cardinality(RevenueEntries(p)) = 1
          /\ \A e \in RevenueEntries(p) :
                /\ journalEntry[e].lines[1].debit # project[p].budget
                /\ account[journalEntry[e].lines[1].accountId].balance
                       = journalEntry[e].lines[1].debit

\* C13: a project has at most one revenue-recognition entry.
RevenueOnce ==
    \A p \in ProjectIds : Cardinality(RevenueEntries(p)) <= 1

\* C14: on the ledger of invoices, recordPayment payments, project completions and
\* approved balanced manual entries, with every account active and of its seeded type,
\* getBalanceSheet answers isBalanced = true.
BalanceSheetBalanced ==
    res.op = "getBalanceSheet" => res.data.isBalanced

\* C15: on that ledger the totalAssets of getBalanceSheet equals its totalLiabilities
\* plus its totalEquity plus the netIncome of getProfitLoss, within 0.01.
AccountingIdentity ==
    Abs(BalanceSheet.totalAssets
        - (BalanceSheet.totalLiabilities + BalanceSheet.totalEquity + ProfitLoss.netIncome))
      <= Tolerance

\* no two accounts share a code
UniqueCodes ==
    \A a, b \in DOMAIN account : a # b => account[a].code # account[b].code

\* C16: no two accounts ever share a code; createAccount with a code some account has
\* fails and creates no account; and a created account starts with balance 0.
AccountCodesUnique ==
    [][/\ UniqueCodes /\ UniqueCodes'
       /\ \A code \in NewAccountCodes, type \in AccountType :
             createAccount(code, type)
             => IF \E a \in DOMAIN account : account[a].code = code
                THEN res'.status = 400 /\ account' = account
                ELSE /\ res'.status = 201
                     /\ Len(account') = Len(account) + 1
                     /\ SubSeq(account', 1, Len(account)) = account
                     /\ account'[Len(account')].code = code
                     /\ account'[Len(account')].balance = 0]_vars

\* a created account has the code 1000, which the seeded Cash account gave up, and
\* balance 0, and the request after that was refused
AccountCodesWitness ==
    /\ Len(account) > Len(SeedAccounts)
    /\ account[Len(account)].code = "1000"
    /\ account[Len(account)].balance = 0
    /\ res.status >= 400

\* the kinds of entry: manual, invoice or bill, payment, revenue recognition
EntryKinds == {journalEntry[e].description[1] : e \in EntryIds}

\* C17: the n-th persisted journal entry, of whichever kind, carries sequence number n,
\* so no two entries share an entry number.
EntryNumbersSequential ==
    /\ \A e \in EntryIds : journalEntry[e].entryNumber = e
    /\ \A e, f \in EntryIds : e # f => journalEntry[e].entryNumber # journalEntry[f].entryNumber

\* four entries, one of each kind, were numbered
EntryNumbersWitness ==
    /\ Len(journalEntry) = 4
    /\ EntryKinds = {"manual", "Invoice", "Payment", "Revenue recognition"}

\* C18: the number createInvoice generates is the number of no existing invoice, and
\* the request succeeds.
InvoiceNumbersFresh ==
    [][\A type \in InvoiceTypes :
          createInvoice(type, << Item(1, 4) >>)
          => /\ \A i \in InvoiceIds : invoice[i].invoiceNumber # generateInvoiceNumber(type)
             /\ res'.status = 201]_vars

\* no request is between two of its database calls
Quiescent == \A r \in Requests : request[r].pc = "idle"

\* C19: when approveJournalEntry requests for the same DRAFT or PENDING entry
\* interleave at their database calls, the entry's deltas are applied once: after
\* the requests have answered, every account's balance is the sum of the signed
\* deltas of the approved entries, each counted once.
AppliedOnce ==
    Quiescent =>
        \A a \in DOMAIN account : account[a].balance = ApprovedDelta(a, Len(journalEntry))

\* C20: when payment requests against the same invoice interleave between reading
\* its payments and inserting the new payment, the sum of the persisted payments of
\* the invoice never exceeds the invoice total.
RacedPaymentsWithinTotal ==
    \A i \in InvoiceIds : SumAmounts(PaymentsOf(i)) <= invoice[i].total

\* the entry createInvoice posted for invoice i
InvoiceEntries(i) ==
    {e \in EntryIds : journalEntry[e].description =
        << IF invoice[i].type = "RECEIVABLE" THEN "Invoice" ELSE "Bill",
           invoice[i].invoiceNumber >>}

\* C21: a ledger-affecting request completes or fails as a whole, also when one of
\* its writes fails midway: once the requests have ended, with the accounts of the
\* posting rules present, an invoice row is there only with its journal entry, and
\* the balances are those of the entries.
WholeRequests ==
    (Quiescent /\ InvoiceAccountsExist) =>
        /\ \A i \in InvoiceIds : InvoiceEntries(i) # {}
        /\ \A a \in DOMAIN account : account[a].balance = ApprovedDelta(a, Len(journalEntry))

\* the account codes of the posting rule of a new invoice, and of a payment, by the
\* type of the invoice
InvoiceRuleCodes(type) == IF type = "RECEIVABLE" THEN {"1100", "4100"} ELSE {"2000", "5000"}
PaymentRuleCodes(type) == IF type = "RECEIVABLE" THEN {"1000", "1100"} ELSE {"2000", "1000"}
Missing(codes) == \E c \in codes : AccountByCode(c) = 0

\* C22: when an account code of the applicable posting rule does not exist,
\* createInvoice and recordPayment still succeed and persist the invoice or the
\* payment, and they create no journal entry and change no account balance.
MissingConfigSkips ==
    [][/\ \A type \in InvoiceTypes, items \in InvoiceItems :
             (createInvoice(type, items) /\ Missing(InvoiceRuleCodes(type)))
             => /\ res'.status = 201
                /\ nextInvoiceId \in DOMAIN invoice'
                /\ UNCHANGED <<journalEntry, account>>
       /\ \A i \in InvoiceIds, amount \in PaymentAmounts :
             ( /\ recordPayment(i, amount)
               /\ res'.status = 201
               /\ Missing(PaymentRuleCodes(invoice[i].type)) )
             => /\ Len(payment') = Len(payment) + 1
                /\ UNCHANGED <<journalEntry, account>>]_vars

\* C23: a payment with a negative or zero amount is rejected before any write on
\* both payment endpoints, so every persisted payment has an amount greater than 0.
PositivePayments ==
    \A k \in 1..Len(payment) : payment[k].amount > 0

\* the requests that must leave the balances alone, and the requests that post
FrameRequests ==
    {"createJournalEntry", "rejectJournalEntry", "createAccount", "updateAccount",
     "updateInvoice", "deleteInvoice"}
PostingRequests ==
    {"approveJournalEntry", "createInvoice", "recordPayment", "updateProject"}

BalancesKept ==
    \A a \in DOMAIN account : a \in DOMAIN account' /\ account'[a].balance = account[a].balance

\* C24: createJournalEntry, rejectJournalEntry, createAccount, updateAccount,
\* updateInvoice and deleteInvoice leave the balance of every account unchanged, a
\* created entry is a DRAFT, and a step that changes a balance is a step of
\* approveJournalEntry, createInvoice, recordPayment or updateProject.
BalancesOnlyPosted ==
    [][/\ res'.op \in FrameRequests => BalancesKept
       /\ (res'.op = "createJournalEntry" /\ res'.status = 201)
             => journalEntry'[Len(journalEntry')].status = "DRAFT"
       /\ ~BalancesKept => res'.op \in PostingRequests]_vars

\* a rejection has answered 200 while an account has a balance and a rejected entry
\* has lines on that account
BalancesOnlyPostedWitness ==
    /\ res.op = "rejectJournalEntry" /\ res.status = 200
    /\ \E e \in EntryIds, a \in DOMAIN account :
          /\ journalEntry[e].status = "REJECTED"
          /\ account[a].balance # 0
          /\ \E k \in 1..Len(journalEntry[e].lines) : journalEntry[e].lines[k].accountId = a

\* the accounts the lines of a journal entry reference
ReferencedAccounts ==
    {a \in DOMAIN account :
        \E e \in EntryIds : \E k \in 1..Len(journalEntry[e].lines) :
            journalEntry[e].lines[k].accountId = a}

\* C25: the type of an account never changes once a journal line references the
\* account.
TypeFixedOnceReferenced ==
    [][\A a \in ReferencedAccounts : account'[a].type = account[a].type]_vars

\* a manually created entry is PENDING
PendingEntry ==
    \E e \in EntryIds :
        journalEntry[e].description = <<"manual">> /\ journalEntry[e].status = "PENDING"

\* C26: the state machine DRAFT -> PENDING -> {APPROVED | REJECTED} is realisable:
\* the requests of the journal bring a manually created entry to PENDING.
PendingRealisable == <>PendingEntry

\* C27: after any sequence of createInvoice and recordPayment requests no account
\* has a negative stored balance.
NoNegativeBalance ==
    \A a \in DOMAIN account : account[a].balance >= 0

\* what the customers owe: over the RECEIVABLE invoices that exist, the total minus
\* the payments
RECURSIVE Outstanding(_)
Outstanding(is) ==
    IF is = {} THEN 0
    ELSE LET i == CHOOSE x \in is : TRUE
         IN  (IF invoice[i].type = "RECEIVABLE" THEN invoice[i].total - TotalPaid(i) ELSE 0)
             + Outstanding(is \ {i})

\* C29: with the seeded accounts, after any sequence of createInvoice, recordPayment,
\* createPayment and deleteInvoice requests the balance of Accounts Receivable (1100)
\* is the sum, over the existing RECEIVABLE invoices, of the total minus the payments.
ReceivableMatchesInvoices ==
    account[Receivable].balance = Outstanding(InvoiceIds)

\* the signed sum of the cash flow records of the days from start to end
RECURSIVE SignedFlows(_)
SignedFlows(ks) ==
    IF ks = {} THEN 0
    ELSE LET k == CHOOSE x \in ks : TRUE
         IN  (IF cashFlow[k].type = "INFLOW" THEN cashFlow[k].amount ELSE -cashFlow[k].amount)
             + SignedFlows(ks \ {k})

\* C28: every cash flow record of the requested range, the records createPayment
\* writes included, is counted in one of the operating, investing and financing
\* totals, so netCashChange is the signed sum of the records of the range.
CashFlowComplete ==
    res.op = "getCashFlowStatement" =>
        res.data.netCashChange =
            SignedFlows({k \in 1..Len(cashFlow) :
                            /\ res.data.period[1] <= cashFlow[k].date
                            /\ cashFlow[k].date <= res.data.period[2]})

\* C30: PAID is an absorbing invoice status: once an invoice is PAID, no updateInvoice,
\* recordPayment or createPayment request changes its status or adds a payment to it.
PaidAbsorbing ==
    [][\A i \in InvoiceIds :
          invoice[i].status = "PAID"
          => /\ i \in DOMAIN invoice' /\ invoice'[i].status = "PAID"
             /\ \A k \in 1..Len(payment') :
                   payment'[k].invoiceId = i => k <= Len(payment)]_vars

====
